---- MODULE Spec2Model ----
(***************************************************************************)
(* A model of package comms (src/broadcaster.go): a Broadcaster that hands *)
(* one message to every registered listener over an unbuffered channel and *)
(* can wait, on a sync.WaitGroup, until every listener has reported.       *)
(*                                                                         *)
(* Goroutines of the model:                                                *)
(*   - senders, each calling Send or SendAndWait once;                     *)
(*   - listeners, each calling Listen or Get once;                         *)
(*   - for every listener two report threads ("own", the goroutine that    *)
(*     called Listen/Get, and "copy", another goroutine holding a copy of  *)
(*     the BroadcastMessage) that call Report.                             *)
(* A step is a statement that touches shared memory or can block.  The     *)
(* body of subscribe runs under the mutex and cannot block, so it is one   *)
(* step.  In Report, "hasReported = true; wg.Done()" is one step and so is *)
(* unsubscribe's "close; delete": nothing another goroutine does between   *)
(* the two halves can tell them apart.  The read of hasReported is a step  *)
(* of its own.  Data races and panics of the Go runtime are modelled by    *)
(* the variable crashed: a crashed program takes no further step.          *)
(***************************************************************************)
EXTENDS Integers, FiniteSets, Sequences, TLC

\* ---------------------------------------------------------------- bounds
NumListeners == 2

Listeners == 1..NumListeners
Senders == {"s1", "s2"}
\* The payload each sender broadcasts: distinct, so that a send is known by
\* its payload.
Payload == [s \in Senders |-> IF s = "s1" THEN "m1" ELSE "m2"]
Threads == {"own", "copy"}
Free == "free"
NoSender == "none"
NoMsg == "nomsg"
Running == "running"

VARIABLES
    \* Broadcaster (src/broadcaster.go:10-15)
    incr,          \* bc.incr
    listenersNil,  \* bc.listeners == nil
    listeners,     \* bc.listeners: a set of <<id, listener>> pairs
    mutex,         \* bc.mutex: Free or the sender holding it
    wg,            \* bc.wg: 0 is nil, otherwise an index into wgCount
    wgCount,       \* the counter of every WaitGroup allocated so far
    \* broadcastListener (src/broadcaster.go:19-23), one per listener goroutine
    lid,           \* l.id
    chan,          \* l.msgChan: "none", "open" or "closed"
    hasReported,   \* l.hasReported
    \* send's BroadcastMessage (src/broadcaster.go:56-60), one per sender
    bcmNil,        \* the bcm send returned is nil
    bcmListeners,  \* bcm.listeners
    bcmWg,         \* bcm.wg
    smsg,          \* bcm.msg
    \* the goroutines
    spc, skind, toVisit, cur,
    lpc, lmode, env, result,
    rpc,
    crashed,       \* Running, or the runtime error that ended the program
    \* history variables
    dones,         \* how many wg.Done() ran for each listener
    earlyReturn,   \* a Report call on the listener returned at its first line
    atLock,        \* listeners waiting at their receive when the send locked
    emptyAtLock,   \* the live mapping held no listener when the send locked
    snap0,         \* the snapshot as send took it
    during,        \* sends that held the mutex while the subscription waited
    doneAtSub,     \* sends that had returned when the subscription completed
    subWg,         \* the WaitGroup the subscription was added to
    lateReport     \* the listener was marked reported after its send had
                   \* returned, with its id in use again in the live mapping

bcVars == <<incr, listenersNil, listeners, mutex, wg, wgCount>>
objVars == <<lid, chan, hasReported>>
bcmVars == <<bcmNil, bcmListeners, bcmWg, smsg>>
sendVars == <<spc, skind, toVisit, cur>>
listenVars == <<lpc, lmode, env, result>>
repVars == <<rpc>>
histVars == <<dones, earlyReturn, atLock, emptyAtLock, snap0, during, doneAtSub, subWg,
              lateReport>>
vars == <<bcVars, objVars, bcmVars, sendVars, listenVars, repVars, crashed, histVars>>

\* ------------------------------------------------------------ Go maps
Keys(m) == {p[1] : p \in m}
Values(m) == {p[2] : p \in m}
Lookup(m, k) == (CHOOSE p \in m : p[1] = k)[2]
MapPut(m, k, v) == {p \in m : p[1] # k} \cup {<<k, v>>}
MapDelete(m, k) == {p \in m : p[1] # k}

\* NewBroadcaster: new(Broadcaster[T]) is the zero value.
Init ==
    /\ incr = 0
    /\ listenersNil = TRUE
    /\ listeners = {}
    /\ mutex = Free
    /\ wg = 0
    /\ wgCount = <<>>
    /\ lid = [i \in Listeners |-> 0]
    /\ chan = [i \in Listeners |-> "none"]
    /\ hasReported = [i \in Listeners |-> FALSE]
    /\ bcmNil = [s \in Senders |-> TRUE]
    /\ bcmListeners = [s \in Senders |-> {}]
    /\ bcmWg = [s \in Senders |-> 0]
    /\ smsg = [s \in Senders |-> NoMsg]
    /\ spc = [s \in Senders |-> "idle"]
    /\ skind = [s \in Senders |-> "none"]
    /\ toVisit = [s \in Senders |-> {}]
    /\ cur = [s \in Senders |-> 0]
    /\ lpc = [i \in Listeners |-> "idle"]
    /\ lmode = [i \in Listeners |-> "none"]
    /\ env = [i \in Listeners |-> [msg |-> NoMsg, bcm |-> NoSender]]
    /\ result = [i \in Listeners |-> NoMsg]
    /\ rpc = [i \in Listeners |-> [t \in Threads |-> "idle"]]
    /\ crashed = Running
    /\ dones = [i \in Listeners |-> 0]
    /\ earlyReturn = [i \in Listeners |-> FALSE]
    /\ atLock = [s \in Senders |-> {}]
    /\ emptyAtLock = [s \in Senders |-> FALSE]
    /\ snap0 = [s \in Senders |-> {}]
    /\ during = [i \in Listeners |-> {}]
    /\ doneAtSub = [i \in Listeners |-> {}]
    /\ subWg = [i \in Listeners |-> 0]
    /\ lateReport = [i \in Listeners |-> FALSE]

\* ------------------------------------------------------------ Broadcaster
\* A mutex that excludes nobody.
MutexNeverHeld == TRUE

\* bc.mutex.Lock() succeeds only on an unlocked mutex.
MutexFree == mutex = Free

\* A subscribe that does not take the mutex.
SubscribeNeverWaits == TRUE

\* subscribe: bc.mutex.Lock()
SubscribeMayLock == MutexFree

\* A reset that leaves bc.incr as it is.
ResetIncrKept == incr

\* reset: bc.incr = 0
ResetIncr == 0

\* reset: new(sync.WaitGroup); the new WaitGroup counts 0.
ResetWgCount(counts) == Append(counts, 0)

\* A reset that keeps the WaitGroup it already has.
ResetWgKept(counts) == IF wg = 0 THEN Len(counts) + 1 ELSE wg

\* reset: bc.wg = the new WaitGroup
ResetWg(counts) == Len(counts) + 1

\* A reset that leaves bc.listeners as it is.
ResetListenersKept == listeners

\* reset: bc.listeners = make(map[int]*broadcastListener[T])
ResetListeners == {}

\* A copy loop that misses the listener with id 0.
SnapshotSkipsFirst(m) == {<<p[1], p[2]>> : p \in {q \in m : q[1] # 0}}

\* send: for key, value := range bc.listeners { bcm.listeners[key] = value }
SnapshotCopy(m) == {<<p[1], p[2]>> : p \in m}

\* A get that returns a BroadcastMessage of an earlier, finished send.
EnvelopeFirstSent(s) ==
    LET d == {x \in Senders : spc[x] = "done" /\ ~bcmNil[x]}
        x == IF d = {} THEN s ELSE CHOOSE y \in d : TRUE
    IN [msg |-> smsg[x], bcm |-> x]

\* get: the BroadcastMessage built from the one received from sender s.
\* Its listeners and wg are those of the sender's bcm (shared, not copied).
Envelope(s) == [msg |-> smsg[s], bcm |-> s]

\* Message: return bcm.msg
Message(i) == env[i].msg

\* ---------------------------------------------------------------- senders
\* Send(msg) / SendAndWait(msg) is called; send waits for the mutex.
SendCall(s, kind) ==
    /\ crashed = Running
    /\ spc[s] = "idle"
    /\ spc' = [spc EXCEPT ![s] = "lock"]
    /\ skind' = [skind EXCEPT ![s] = kind]
    /\ smsg' = [smsg EXCEPT ![s] = Payload[s]]
    /\ UNCHANGED <<bcVars, objVars, bcmNil, bcmListeners, bcmWg, toVisit, cur,
                   listenVars, repVars, crashed, histVars>>

\* send: Lock, the nil check, and the construction of bcm with its copy of
\* the live mapping.  With a nil mapping send returns nil (only the deferred
\* Unlock is left to run).
SendLock(s) ==
    /\ crashed = Running
    /\ spc[s] = "lock"
    /\ MutexFree
    /\ mutex' = s
    /\ atLock' = [atLock EXCEPT ![s] = {i \in Listeners : lpc[i] = "recv"}]
    /\ emptyAtLock' = [emptyAtLock EXCEPT ![s] = listenersNil \/ listeners = {}]
    /\ during' = [i \in Listeners |->
                    IF lpc[i] = "sub" THEN during[i] \cup {s} ELSE during[i]]
    /\ IF listenersNil
         THEN /\ bcmNil' = [bcmNil EXCEPT ![s] = TRUE]
              /\ spc' = [spc EXCEPT ![s] = "unlock"]
              /\ UNCHANGED <<bcmListeners, bcmWg, toVisit, snap0>>
         ELSE /\ bcmNil' = [bcmNil EXCEPT ![s] = FALSE]
              /\ bcmListeners' = [bcmListeners EXCEPT ![s] = SnapshotCopy(listeners)]
              /\ bcmWg' = [bcmWg EXCEPT ![s] = wg]
              /\ toVisit' = [toVisit EXCEPT ![s] = Keys(SnapshotCopy(listeners))]
              /\ snap0' = [snap0 EXCEPT ![s] = Values(SnapshotCopy(listeners))]
              /\ spc' = [spc EXCEPT ![s] = "next"]
    /\ UNCHANGED <<incr, listenersNil, listeners, wg, wgCount, objVars, smsg,
                   skind, cur, listenVars, repVars, crashed,
                   dones, earlyReturn, doneAtSub, subWg, lateReport>>

\* send: one step of "for _, l := range bcm.listeners".  The order is the
\* map's; an entry deleted before it is reached is not produced.
SendNext(s) ==
    /\ crashed = Running
    /\ spc[s] = "next"
    /\ LET rem == toVisit[s] \cap Keys(bcmListeners[s])
       IN IF rem = {}
            THEN /\ spc' = [spc EXCEPT ![s] = "reset"]
                 /\ toVisit' = [toVisit EXCEPT ![s] = {}]
                 /\ UNCHANGED cur
            ELSE \E k \in rem :
                 /\ cur' = [cur EXCEPT ![s] = Lookup(bcmListeners[s], k)]
                 /\ toVisit' = [toVisit EXCEPT ![s] = rem \ {k}]
                 /\ spc' = [spc EXCEPT ![s] = "handoff"]
    /\ UNCHANGED <<bcVars, objVars, bcmVars, skind, listenVars, repVars,
                   crashed, histVars>>

\* send: l.msgChan <- bcm, which completes together with the listener's
\* bcm := <- l.msgChan in get (the channel is unbuffered).
SendHandoff(s) ==
    /\ crashed = Running
    /\ spc[s] = "handoff"
    /\ lpc[cur[s]] = "recv"
    /\ chan[cur[s]] = "open"
    /\ env' = [env EXCEPT ![cur[s]] = Envelope(s)]
    /\ lpc' = [lpc EXCEPT ![cur[s]] = "got"]
    /\ spc' = [spc EXCEPT ![s] = "next"]
    /\ UNCHANGED <<bcVars, objVars, bcmVars, skind, toVisit, cur, lmode, result,
                   repVars, crashed, histVars>>

\* send: the deferred bc.reset(), run when the loop is over.
SendReset(s) ==
    /\ crashed = Running
    /\ spc[s] = "reset"
    /\ incr' = ResetIncr
    /\ wg' = ResetWg(wgCount)
    /\ wgCount' = ResetWgCount(wgCount)
    /\ listeners' = ResetListeners
    /\ listenersNil' = FALSE
    /\ spc' = [spc EXCEPT ![s] = "unlock"]
    /\ UNCHANGED <<mutex, objVars, bcmVars, skind, toVisit, cur, listenVars,
                   repVars, crashed, histVars>>

\* A Send that waits like SendAndWait.
AlwaysWaitsForReports(s) == ~bcmNil[s]

\* SendAndWait goes on to bcm.wg.Wait() unless bcm is nil; Send never does.
WaitsForReports(s) == skind[s] = "SendAndWait" /\ ~bcmNil[s]

\* send: the deferred bc.mutex.Unlock(), and the return to Send (which
\* returns) or to SendAndWait (which returns on a nil bcm and otherwise
\* goes on to bcm.wg.Wait()).
SendUnlock(s) ==
    /\ crashed = Running
    /\ spc[s] = "unlock"
    /\ mutex' = Free
    /\ spc' = [spc EXCEPT ![s] =
                 IF WaitsForReports(s) THEN "wait" ELSE "done"]
    /\ UNCHANGED <<incr, listenersNil, listeners, wg, wgCount, objVars, bcmVars,
                   skind, toVisit, cur, listenVars, repVars, crashed, histVars>>

\* bcm.wg.Wait() returns once the counter is zero.
WaitMayReturn(s) == wgCount[bcmWg[s]] = 0

\* SendAndWait: bcm.wg.Wait()
SendWait(s) ==
    /\ crashed = Running
    /\ spc[s] = "wait"
    /\ WaitMayReturn(s)
    /\ spc' = [spc EXCEPT ![s] = "done"]
    /\ UNCHANGED <<bcVars, objVars, bcmVars, skind, toVisit, cur, listenVars,
                   repVars, crashed, histVars>>

\* -------------------------------------------------------------- listeners
\* Listen() / Get() is called; subscribe waits for the mutex.
ListenCall(i, mode) ==
    /\ crashed = Running
    /\ lpc[i] = "idle"
    /\ lpc' = [lpc EXCEPT ![i] = "sub"]
    /\ lmode' = [lmode EXCEPT ![i] = mode]
    /\ during' = [during EXCEPT ![i] = IF mutex = Free THEN {} ELSE {mutex}]
    /\ UNCHANGED <<bcVars, objVars, bcmVars, sendVars, env, result, repVars,
                   crashed, dones, earlyReturn, atLock, emptyAtLock, snap0,
                   doneAtSub, subWg, lateReport>>

\* subscribe, from Lock to the deferred Unlock; the caller then goes to the
\* receive of get.
Subscribe(i) ==
    /\ crashed = Running
    /\ lpc[i] = "sub"
    /\ SubscribeMayLock
    /\ LET counts0 == IF listenersNil THEN ResetWgCount(wgCount) ELSE wgCount
           w == IF listenersNil THEN ResetWg(wgCount) ELSE wg
           incr0 == IF listenersNil THEN ResetIncr ELSE incr
           map0 == IF listenersNil THEN ResetListeners ELSE listeners
       IN /\ wg' = w
          /\ wgCount' = [counts0 EXCEPT ![w] = @ + 1]
          /\ lid' = [lid EXCEPT ![i] = incr0]
          /\ listeners' = MapPut(map0, incr0, i)
          /\ incr' = incr0 + 1
          /\ subWg' = [subWg EXCEPT ![i] = w]
    /\ listenersNil' = FALSE
    /\ chan' = [chan EXCEPT ![i] = "open"]
    /\ lpc' = [lpc EXCEPT ![i] = "recv"]
    /\ doneAtSub' = [doneAtSub EXCEPT ![i] = {s \in Senders : spc[s] = "done"}]
    /\ UNCHANGED <<mutex, hasReported, bcmVars, sendVars, lmode, env, result,
                   repVars, crashed, dones, earlyReturn, atLock, emptyAtLock, snap0,
                   during, lateReport>>

\* A Get without its deferred Report.
GetReturnsUnreported(i) == lpc[i] = "got" /\ lmode[i] = "Get"

\* Get returns when its deferred bcm.Report() has run.
GetMayReturn(i) == lpc[i] = "reporting" /\ rpc[i]["own"] = "idle"

\* Get: return bcm.msg (after the deferred Report).
GetReturn(i) ==
    /\ crashed = Running
    /\ GetMayReturn(i)
    /\ lpc' = [lpc EXCEPT ![i] = "returned"]
    /\ result' = [result EXCEPT ![i] = Message(i)]
    /\ UNCHANGED <<bcVars, objVars, bcmVars, sendVars, lmode, env, repVars,
                   crashed, histVars>>

\* ----------------------------------------------------------------- Report
\* Who may call Report: the holders of the BroadcastMessage Listen returned,
\* any number of times; for Get, only Get itself, once (defer bcm.Report()).
MayCallReport(i, t) ==
    /\ lpc[i] = "got"
    /\ rpc[i][t] = "idle"
    /\ lmode[i] = "Get" => t = "own"

\* A Report without its guard.
ReportNeverReturnsEarly(i) == FALSE

\* Report: if bcm.l == nil || bcm.l.hasReported { return }
\* (bcm.l is never nil in a BroadcastMessage that get built.)
ReportReturnsEarly(i) == env[i].bcm = NoSender \/ hasReported[i]

\* Report is called and reads bcm.l.hasReported.
ReportCall(i, t) ==
    /\ crashed = Running
    /\ MayCallReport(i, t)
    /\ IF ReportReturnsEarly(i)
         THEN /\ earlyReturn' = [earlyReturn EXCEPT ![i] = TRUE]
              /\ UNCHANGED rpc
         ELSE /\ rpc' = [rpc EXCEPT ![i][t] = "mark"]
              /\ UNCHANGED earlyReturn
    /\ lpc' = [lpc EXCEPT ![i] = IF lmode[i] = "Get" THEN "reporting" ELSE @]
    /\ UNCHANGED <<bcVars, objVars, bcmVars, sendVars, lmode, env, result,
                   crashed, dones, atLock, emptyAtLock, snap0, during,
                   doneAtSub, subWg, lateReport>>

\* Report: bcm.l.hasReported = true; bcm.wg.Done().  Done panics on a
\* counter below zero.
ReportMarkDone(i, t) ==
    /\ crashed = Running
    /\ rpc[i][t] = "mark"
    /\ hasReported' = [hasReported EXCEPT ![i] = TRUE]
    /\ LET w == bcmWg[env[i].bcm]
       IN /\ wgCount' = [wgCount EXCEPT ![w] = @ - 1]
          /\ crashed' = IF wgCount[w] - 1 < 0
                          THEN "sync: negative WaitGroup counter" ELSE Running
    /\ dones' = [dones EXCEPT ![i] = @ + 1]
    /\ lateReport' = [lateReport EXCEPT ![i] =
                        \/ @
                        \/ /\ spc[env[i].bcm] \in {"wait", "done"}
                           /\ lid[i] \in Keys(listeners)]
    /\ rpc' = [rpc EXCEPT ![i][t] = "unsub"]
    /\ UNCHANGED <<incr, listenersNil, listeners, mutex, wg, lid, chan, bcmVars,
                   sendVars, listenVars, earlyReturn, atLock, emptyAtLock,
                   snap0, during, doneAtSub, subWg>>

\* The map write of unsubscribe is under no lock.  It runs at the same time
\* as another access to the same map when the sender is at an iteration step
\* of its range loop over it, or when a goroutine reporting for another
\* listener of the same send is in its unsubscribe too.
IterationRace(i) == spc[env[i].bcm] = "next"

WriteRace(i) ==
    \E j \in Listeners \ {i}, u \in Threads :
        /\ rpc[j][u] = "unsub"
        /\ env[j].bcm = env[i].bcm

\* unsubscribe (deferred by Report): close(l.msgChan), which panics on a
\* closed channel, and delete(msg.listeners, l.id); Report returns.
ReportUnsubscribe(i, t) ==
    /\ crashed = Running
    /\ rpc[i][t] = "unsub"
    /\ IF chan[i] = "closed"
         THEN /\ crashed' = "close of closed channel"
              /\ UNCHANGED <<chan, bcmListeners>>
         ELSE /\ chan' = [chan EXCEPT ![i] = "closed"]
              /\ bcmListeners' = [bcmListeners EXCEPT
                                    ![env[i].bcm] = MapDelete(@, lid[i])]
              /\ UNCHANGED crashed
    /\ rpc' = [rpc EXCEPT ![i][t] = "idle"]
    /\ UNCHANGED <<bcVars, lid, hasReported, bcmNil, bcmWg, smsg, sendVars,
                   listenVars, histVars>>

\* unsubscribe: the same delete, caught by the runtime in a concurrent map
\* access (a fatal error that ends the program).
ReportUnsubscribeRace(i, t) ==
    /\ crashed = Running
    /\ rpc[i][t] = "unsub"
    /\ chan[i] = "open"
    /\ IterationRace(i) \/ WriteRace(i)
    /\ crashed' = IF IterationRace(i)
                    THEN "concurrent map iteration and map write"
                    ELSE "concurrent map writes"
    /\ chan' = [chan EXCEPT ![i] = "closed"]
    /\ UNCHANGED <<bcVars, lid, hasReported, bcmVars, sendVars, listenVars,
                   repVars, histVars>>

\* ---------------------------------------------------------- specification
SenderStep(s) ==
    \/ SendLock(s)
    \/ SendNext(s)
    \/ SendHandoff(s)
    \/ SendReset(s)
    \/ SendUnlock(s)
    \/ SendWait(s)

ListenerStep(i) ==
    \/ Subscribe(i)
    \/ GetReturn(i)
    \/ lmode[i] = "Get" /\ ReportCall(i, "own")

ReportStep(i, t) ==
    \/ ReportMarkDone(i, t)
    \/ ReportUnsubscribe(i, t)
    \/ ReportUnsubscribeRace(i, t)

Next ==
    \/ \E s \in Senders, kind \in {"Send", "SendAndWait"} : SendCall(s, kind)
    \/ \E s \in Senders : SendLock(s)
    \/ \E s \in Senders : SendNext(s)
    \/ \E s \in Senders : SendHandoff(s)
    \/ \E s \in Senders : SendReset(s)
    \/ \E s \in Senders : SendUnlock(s)
    \/ \E s \in Senders : SendWait(s)
    \/ \E i \in Listeners, mode \in {"Listen", "Get"} : ListenCall(i, mode)
    \/ \E i \in Listeners : Subscribe(i)
    \/ \E i \in Listeners : GetReturn(i)
    \/ \E i \in Listeners, t \in Threads : ReportCall(i, t)
    \/ \E i \in Listeners, t \in Threads : ReportMarkDone(i, t)
    \/ \E i \in Listeners, t \in Threads : ReportUnsubscribe(i, t)
    \/ \E i \in Listeners, t \in Threads : ReportUnsubscribeRace(i, t)

Spec == Init /\ [][Next]_vars

\* Only the goroutine that called Listen or Get reports: every Report on a
\* listener follows the previous one.
NextSeq ==
    \/ \E s \in Senders, kind \in {"Send", "SendAndWait"} : SendCall(s, kind)
    \/ \E s \in Senders : SenderStep(s)
    \/ \E i \in Listeners, mode \in {"Listen", "Get"} : ListenCall(i, mode)
    \/ \E i \in Listeners : Subscribe(i)
    \/ \E i \in Listeners : GetReturn(i)
    \/ \E i \in Listeners : ReportCall(i, "own")
    \/ \E i \in Listeners : ReportStep(i, "own")

SpecSeq == Init /\ [][NextSeq]_vars

\* Every goroutine that can take a step eventually takes one.  Calling
\* Send, SendAndWait, Listen, Get or Report is left to the caller.
Fairness ==
    /\ \A s \in Senders : WF_vars(SenderStep(s))
    /\ \A i \in Listeners : WF_vars(ListenerStep(i))
    /\ \A i \in Listeners, t \in Threads : WF_vars(ReportStep(i, t))

FairSpec == Spec /\ Fairness

\* ------------------------------------------------------------- properties
DeliveredBy(s) == {i \in Listeners : env[i].bcm = s}
SendOver(s) == spc[s] \in {"reset", "unlock", "wait", "done"}
Received(i) == lpc[i] \in {"got", "reporting", "returned"}
Unreported(s) == {i \in snap0[s] : ~hasReported[i]}
PanicInReport == {"sync: negative WaitGroup counter", "close of closed channel"}

\* C1: a send delivers to exactly the listeners that had subscribed and were
\* waiting when it took the mutex: never to another listener, to all of
\* them once its loop is over, and each receives the send's payload.
C1_ExactDelivery ==
    \A s \in Senders :
        /\ DeliveredBy(s) \subseteq atLock[s]
        /\ \A i \in DeliveredBy(s) : Message(i) = Payload[s]
        /\ SendOver(s) => DeliveredBy(s) = atLock[s]

C1_Witness ==
    \E s \in Senders :
        /\ spc[s] = "done"
        /\ Cardinality(atLock[s]) >= 2
        /\ DeliveredBy(s) = atLock[s]

\* C2: when a SendAndWait with a non-empty snapshot has returned, every
\* listener of the snapshot is marked reported.
C2_ReturnedOnlyAfterAllReported ==
    \A s \in Senders :
        (skind[s] = "SendAndWait" /\ spc[s] = "done" /\ snap0[s] # {})
            => \A i \in snap0[s] : hasReported[i]

\* C3: under weak fairness, once every listener of a SendAndWait's snapshot
\* has reported, the SendAndWait returns.
C3_SendAndWaitReturns ==
    \A s \in Senders :
        (skind[s] = "SendAndWait" /\ snap0[s] # {} /\ Unreported(s) = {})
            ~> (spc[s] = "done")

\* C4: a send that found no listener in the live mapping (nil, or emptied
\* by an earlier send's reset) hands nothing to any channel and is never
\* held at its Wait.
C4_NoListenerNoBlocking ==
    \A s \in Senders :
        (emptyAtLock[s] /\ spc[s] \notin {"idle", "lock"}) =>
            /\ spc[s] # "handoff"
            /\ DeliveredBy(s) = {}
            /\ spc[s] = "wait" => WaitMayReturn(s)

C4_Witness ==
    \E s \in Senders :
        /\ emptyAtLock[s]
        /\ ~bcmNil[s]
        /\ skind[s] = "SendAndWait"
        /\ spc[s] = "done"
        /\ \E x \in Senders : snap0[x] # {} /\ Unreported(x) # {}

\* C5: with Report calls on a listener made one after another, the first
\* marks the listener, decrements the counter of its send once, closes the
\* channel and removes the listener from the snapshot; a later call returns
\* at once, so the counter stays at the number of unreported listeners, no
\* listener is counted twice and no channel is closed twice.
C5_SequentialReportIdempotent ==
    /\ crashed \notin PanicInReport
    /\ \A i \in Listeners :
        /\ dones[i] <= 1
        /\ earlyReturn[i] => hasReported[i]
        /\ (hasReported[i] /\ rpc[i]["own"] = "idle") =>
              /\ dones[i] = 1
              /\ chan[i] = "closed"
              /\ <<lid[i], i>> \notin bcmListeners[env[i].bcm]
    /\ \A s \in Senders :
        (~bcmNil[s] /\ spc[s] \notin {"idle", "lock"}) =>
            wgCount[bcmWg[s]] = Cardinality(Unreported(s))

C5_Witness ==
    \E i \in Listeners :
        /\ earlyReturn[i]
        /\ rpc[i]["own"] = "idle"
        /\ dones[i] = 1
        /\ chan[i] = "closed"

\* C6: with Report called on one BroadcastMessage by several goroutines at
\* once, the counter is decremented once for the listener and never goes
\* below zero, and the channel is closed once.
C6_ConcurrentReportHarmless ==
    /\ crashed \notin PanicInReport
    /\ \A i \in Listeners : dones[i] <= 1
    /\ \A w \in DOMAIN wgCount : wgCount[w] >= 0

\* C7: a listener that subscribed after a send had returned never receives
\* from that send; what it receives is the payload of the send that
\* delivered to it, a later one.
C7_LateSubscriberGetsLaterSend ==
    \A i \in Listeners :
        /\ env[i].bcm \notin doneAtSub[i]
        /\ Received(i) =>
              /\ env[i].bcm \in Senders
              /\ Message(i) = Payload[env[i].bcm]
              /\ \A s \in doneAtSub[i] : Message(i) # Payload[s]

C7_Witness ==
    \E i \in Listeners, s \in Senders :
        /\ s \in doneAtSub[i]
        /\ skind[s] = "Send"
        /\ DeliveredBy(s) # {}
        /\ Received(i)

\* C8: a subscription that waited for the mutex while a send held it stays
\* incomplete as long as the send holds the mutex; its listener is not in
\* that send's snapshot, does not receive from it and was not added to its
\* WaitGroup.
C8_SubscriptionDuringSendJoinsNext ==
    \A i \in Listeners :
        \A s \in during[i] :
            /\ mutex = s => lpc[i] = "sub"
            /\ i \notin snap0[s]
            /\ env[i].bcm # s
            /\ lpc[i] \notin {"idle", "sub"} => subWg[i] # bcmWg[s]

C8_Witness ==
    \E i \in Listeners :
        \E s \in during[i] :
            /\ snap0[s] # {}
            /\ Received(i)

\* C9: when Get has returned, its result is the payload of the send that
\* delivered to it and its listener is retired (marked reported, counted
\* once, channel closed, removed from the snapshot); the WaitGroup of a send
\* whose snapshot holds only returned Get callers is at zero.
C9_GetIsListenThenReport ==
    /\ \A i \in Listeners :
        (lmode[i] = "Get" /\ lpc[i] = "returned") =>
            /\ result[i] = Payload[env[i].bcm]
            /\ hasReported[i]
            /\ dones[i] = 1
            /\ chan[i] = "closed"
            /\ <<lid[i], i>> \notin bcmListeners[env[i].bcm]
    /\ \A s \in Senders :
        (snap0[s] # {} /\ \A i \in snap0[s] : lmode[i] = "Get" /\ lpc[i] = "returned")
            => WaitMayReturn(s)

C9_Witness ==
    \E s \in Senders :
        /\ skind[s] = "SendAndWait"
        /\ spc[s] = "done"
        /\ Cardinality(snap0[s]) >= 2
        /\ \A i \in snap0[s] : lmode[i] = "Get" /\ lpc[i] = "returned"

\* C10: Send never waits on the WaitGroup, and once its loop has handed the
\* message to every listener of the snapshot each step left to it (the end
\* of the loop, the reset, the unlock) can be taken, whether or not any
\* listener has reported.
C10_SendDoesNotWaitForReports ==
    \A s \in Senders :
        skind[s] = "Send" =>
            /\ spc[s] # "wait"
            /\ (crashed = Running /\ spc[s] \in {"next", "reset", "unlock"}
                  /\ toVisit[s] \cap Keys(bcmListeners[s]) = {})
                  => ENABLED SenderStep(s)

C10_Witness ==
    \E s \in Senders :
        /\ skind[s] = "Send"
        /\ spc[s] = "done"
        /\ Cardinality(snap0[s]) >= 2
        /\ Unreported(s) = snap0[s]
        /\ \A i \in snap0[s] : lmode[i] = "Listen"

InLoop(s) == spc[s] \in {"next", "handoff"}
Returned(s) == spc[s] \in {"wait", "done"}

\* C11: no Report is at the delete of its unsubscribe, outside the mutex,
\* while the send that delivered to it is still in its range loop over the
\* same snapshot mapping.
C11_NoDeleteDuringIteration ==
    \A i \in Listeners, t \in Threads :
        rpc[i][t] = "unsub" => ~InLoop(env[i].bcm)

C13_DeliveriesDoNotInterleave ==
    /\ \A s \in Senders : spc[s] \in {"next", "handoff", "reset", "unlock"} => mutex = s
    /\ \A s, x \in Senders : s # x => snap0[s] \cap snap0[x] = {}
    /\ \A s \in Senders :
        \A i \in snap0[s] :
            Received(i) => env[i].bcm = s /\ Message(i) = Payload[s]

C13_Witness ==
    \E s, x \in Senders :
        /\ s # x
        /\ spc[x] = "lock"
        /\ InLoop(s)
        /\ Cardinality(snap0[s]) >= 2
        /\ DeliveredBy(s) # {}

\* C14: whenever the mutex is free the live counter equals the number of
\* listeners in the live mapping, and from the snapshot on the counter of a
\* send equals the number of its snapshot's listeners that have not
\* reported.
C14_CounterMatchesListeners ==
    /\ (mutex = Free /\ ~listenersNil) => wgCount[wg] = Cardinality(listeners)
    /\ \A s \in Senders :
        (~bcmNil[s] /\ spc[s] \notin {"idle", "lock"}) =>
            wgCount[bcmWg[s]] = Cardinality(Unreported(s))

\* The part of C14 about the live generation alone.
LiveCounterMatches ==
    (mutex = Free /\ ~listenersNil) => wgCount[wg] = Cardinality(listeners)

IdsOf(m) == 0 .. (Cardinality(m) - 1)

\* C15: the live mapping's keys are exactly 0 .. incr-1, each the id of its
\* listener; a snapshot's ids are 0 .. size-1; and a subscribe hands out an
\* id above every id of the live mapping, 0 when the mapping is empty (or
\* nil), as it is after every reset.
C15_IdsSequential ==
    [][ /\ ~listenersNil' =>
              /\ Keys(listeners') = 0 .. (incr' - 1)
              /\ Cardinality(listeners') = incr'
        /\ \A p \in listeners' : lid'[p[2]] = p[1]
        /\ \A s \in Senders :
              ~bcmNil'[s] => {lid'[i] : i \in snap0'[s]} = IdsOf(snap0'[s])
        /\ \A i \in Listeners :
              (lpc[i] = "sub" /\ lpc'[i] = "recv") =>
                  /\ \A p \in listeners : p[1] < lid'[i]
                  /\ listeners = {} => lid'[i] = 0
      ]_vars

C15_Witness ==
    \E i, j \in Listeners, s \in Senders :
        /\ i # j
        /\ Returned(s)
        /\ i \in snap0[s]
        /\ lid[i] = 0
        /\ <<0, j>> \in listeners
        /\ lpc[j] = "recv"

\* The place of a listener in its life: 0 before it is registered, 1
\* registered, 2 notified (it holds its BroadcastMessage), 3 reported.
Rank(i) ==
    IF hasReported[i] THEN 3
    ELSE IF Received(i) THEN 2
    ELSE IF lpc[i] = "recv" THEN 1
    ELSE 0

\* C16: a listener only moves forward through registered, notified,
\* reported; it is handed one BroadcastMessage, while it waits at its
\* receive, and keeps it; it is in the snapshot of at most one send and not
\* in the live mapping once that send has reset; once reported it stays
\* reported, with the same id and BroadcastMessage and a channel that, once
\* closed, stays closed.
C16_ListenerSingleUse ==
    [][ \A i \in Listeners :
          /\ Rank(i)' >= Rank(i)
          /\ env'[i] # env[i] =>
                /\ Rank(i) = 1
                /\ env[i].bcm = NoSender
                /\ i \in snap0[env'[i].bcm]
          /\ \A s, x \in Senders :
                (i \in snap0'[s] /\ i \in snap0'[x]) => s = x
          /\ \A s \in Senders :
                (i \in snap0'[s] /\ spc'[s] \in {"unlock", "wait", "done"})
                    => i \notin Values(listeners')
          /\ hasReported[i] =>
                /\ hasReported'[i]
                /\ env'[i] = env[i]
                /\ lid'[i] = lid[i]
                /\ chan[i] = "closed" => chan'[i] = "closed"
      ]_vars

C16_Witness ==
    \E i, j \in Listeners, s, x \in Senders :
        /\ s # x
        /\ spc[s] = "done"
        /\ spc[x] = "done"
        /\ i \in snap0[s]
        /\ j \in snap0[x]
        /\ Rank(i) = 3
        /\ chan[i] = "closed"
        /\ \A t \in Threads : rpc[i][t] = "idle"
        /\ Rank(j) = 2

\* C17: a step of a Report on a listener whose send has returned leaves
\* the live mapping, the id counter, the live WaitGroup and its counter as
\* they are, and changes neither the reported mark nor the channel of any
\* other listener, one with the same id included.
C17_ReportTouchesOwnGeneration ==
    [][ \A i \in Listeners :
          (/\ Received(i)
           /\ Returned(env[i].bcm)
           /\ \E t \in Threads : ReportCall(i, t) \/ ReportStep(i, t))
          => /\ UNCHANGED <<incr, listenersNil, listeners, wg, lid>>
             /\ wgCount'[wg] = wgCount[wg]
             /\ \A j \in Listeners \ {i} :
                   /\ hasReported'[j] = hasReported[j]
                   /\ chan'[j] = chan[j]
                   /\ dones'[j] = dones[j]
      ]_vars

C17_Witness ==
    \E i, j \in Listeners :
        /\ i # j
        /\ lateReport[i]
        /\ chan[i] = "closed"
        /\ \A t \in Threads : rpc[i][t] = "idle"
        /\ <<lid[i], j>> \in listeners
        /\ lpc[j] = "recv"
        /\ chan[j] = "open"
        /\ ~hasReported[j]
        /\ wgCount[wg] = 1

\* A listener that holds its BroadcastMessage and has not called Report.
NeverReported(i) ==
    /\ Received(i)
    /\ ~hasReported[i]
    /\ \A t \in Threads : rpc[i][t] = "idle"

\* C18: a SendAndWait has not returned while a listener of its snapshot has
\* not called Report; a SendAndWait whose own listeners have all reported
\* can return, and a Send or a subscription waiting for a free mutex can
\* take it, whatever listeners of other sends have not reported.
C18_UnreportedBlocksOwnSendOnly ==
    \A s \in Senders :
        /\ (skind[s] = "SendAndWait" /\ spc[s] = "done") =>
              \A i \in snap0[s] : ~NeverReported(i)
        /\ (crashed = Running /\ \E x \in Senders \ {s} : \E i \in snap0[x] : NeverReported(i)) =>
              /\ (spc[s] = "wait" /\ Unreported(s) = {}) => ENABLED SendWait(s)
              /\ (spc[s] = "lock" /\ mutex = Free) => ENABLED SendLock(s)
              /\ \A j \in Listeners :
                    (lpc[j] = "sub" /\ mutex = Free) => ENABLED Subscribe(j)

\* C19: under weak fairness a send that holds the mutex releases it.
C19_GuardEventuallyReleased ==
    \A s \in Senders : (mutex = s) ~> (mutex # s)

\* The safety half of C19: while a send holds the mutex, at a handoff or
\* anywhere else, no subscription and no other send gets past its Lock.
GuardExcludes ==
    [][ \A s \in Senders :
          (mutex = s /\ mutex' = s) =>
              /\ \A i \in Listeners : lpc[i] = "sub" => lpc'[i] = "sub"
              /\ \A x \in Senders \ {s} : spc[x] = "lock" => spc'[x] = "lock"
      ]_vars
====
